---------------------------- MODULE Spec2Model ----------------------------
(***************************************************************************)
(* Download orchestration engine of the BiliBili manga downloader          *)
(* (src-tauri/src/download_manager.rs): the dispatcher, the per-item        *)
(* processors process_episode / process_album_plus, the per-image task      *)
(* download_image, the two semaphores and the shared progress counters.     *)
(*                                                                         *)
(* Every tokio task is a process with a program counter.  One action is one *)
(* step between two points where another task can observe or change shared *)
(* state: an await, an atomic operation, a file-system call.                *)
(***************************************************************************)
EXTENDS Integers, Sequences, FiniteSets, TLC

\* ------------------------------------------------------------- bounds
NItems == 2          \* work items that may be submitted
MaxImgs == 2         \* images an item may resolve to
MaxConc == 2         \* largest concurrency value a pool is created with
MaxResizes == 1      \* calls of set_episode_concurrency / set_image_concurrency

\* mpsc::channel::<DownloadPayload>(32)
ChannelCapacity == 32

Items == 1..NItems
Ords == 1..MaxImgs
Kinds == {"Episode", "AlbumPlus"}
Formats == {"Image", "Zip", "Cbz"}

VARIABLES
    queue,                  \* items sent on the channel and not yet received
    kind,                   \* DownloadPayload variant of each submitted item
    title,                  \* the titles of each submitted item (comic title and item title)
    pc,                     \* position of each item's processor task
    selfEp, selfImg,        \* ep_sem / img_sem of the manager clone each processor owns
    epAvail, epSize,        \* item-level semaphores ever created: free permits, size
    imgAvail, imgSize,      \* image-level semaphores ever created: free permits, size
    resizes,                \* calls of the two set_*_concurrency so far
    holdsEp,                \* the processor's `permit` is alive
    total,                  \* the processor's local `total` (urls.len())
    task,                   \* state of each download_image task of each item
    current,                \* the per-item Arc<AtomicU32> `current`
    downloaded_image_count, \* shared AtomicU32
    total_image_count,      \* shared AtomicU32
    ld,                     \* the processor's local downloaded_image_count, while it is live
    fs,                     \* the file system under download_dir
    pendingCnt, startCnt, endCnt, endMsg,   \* events emitted per item id
    errorCnt, successCnt,                   \* image events emitted per item id
    spawnCnt,               \* processor tasks spawned per item
    exitPath,               \* the return statement each processor left by
    archiveCalls,           \* calls of save_archive / the final rename per item
    savedAs,                \* file name each image of each item was written under
    byte_per_sec,           \* shared AtomicU64: bytes saved since the last tick
    drainedBytes,           \* sum of the values the ticks of log_download_speed took
    localCurrent,           \* an image task's local `current`, while it is live
    successCurrent,         \* the `current` values image_success events carried, per item
    resizedInFlight,        \* items that had image tasks pending when the image pool was resized
    archivedAs,             \* the archive_format save_archive read from the configuration, per item
    dec                     \* one call of decrypt_img_data / aes_cbc_decrypt: arguments and result

vars == <<queue, kind, title, pc, selfEp, selfImg, epAvail, epSize,
          imgAvail, imgSize, resizes, holdsEp, total, task, current,
          downloaded_image_count, total_image_count, ld, fs,
          pendingCnt, startCnt, endCnt, endMsg, errorCnt, successCnt,
          spawnCnt, exitPath, archiveCalls, savedAs, resizedInFlight,
          archivedAs, byte_per_sec, drainedBytes, localCurrent, successCurrent,
          dec>>

\* Everything but the observed decryption call.
managerVars == <<queue, kind, title, pc, selfEp, selfImg, epAvail, epSize,
                 imgAvail, imgSize, resizes, holdsEp, total, task, current,
                 downloaded_image_count, total_image_count, ld, fs,
                 pendingCnt, startCnt, endCnt, endMsg, errorCnt, successCnt,
                 spawnCnt, exitPath, archiveCalls, savedAs, resizedInFlight,
                 archivedAs, byte_per_sec, drainedBytes, localCurrent,
                 successCurrent>>

\* ------------------------------------------------------------- paths and names

\* format!("{:03}.jpg", n): the decimal digits of n, left-padded with zeros to
\* at least three digits (the ".jpg" suffix is the same for every file).
RECURSIVE Digits(_)
Digits(n) == IF n < 10 THEN <<n>> ELSE Digits(n \div 10) \o <<n % 10>>

RECURSIVE ZeroPad(_, _)
ZeroPad(s, w) == IF Len(s) >= w THEN s ELSE ZeroPad(<<0>> \o s, w)

Format03(n) == ZeroPad(Digits(n), 3)

\* save_path of the image at 0-based position i of urls.iter().enumerate()
SavePathOffByOne(i) == <<"jpg", Format03(i)>>
SavePath(i) == <<"jpg", Format03(i + 1)>>

\* get_ep_temp_download_dir / get_album_plus_temp_download_dir: the temp
\* directory depends on the variant (album-plus items sit under "特典") and on
\* the titles only, never on the id.
TempDir(i) == <<"temp", kind[i], title[i]>>
\* parent.join(title)
DownloadDir(i) == <<"final", kind[i], title[i]>>
\* download_dir.with_extension(archive_format.extension())
ZipPath(i, fmt) == <<fmt, kind[i], title[i]>>

Titles == Items
Paths == {"temp", "final", "Zip", "Cbz"} \X Kinds \X Titles

\* A path holds nothing, or a directory (or an archive) with its entries
\* <<name, data>>; a name is <<extension, stem>>.
Absent == [exists |-> FALSE, files |-> {}]
Dir(files) == [exists |-> TRUE, files |-> files]
ComicInfoXml == <<"xml", <<>>>>

\* std::fs::write(path, data) into a directory that exists: a file of that
\* name is replaced.
WriteFile(dir, name, data) ==
    Dir({e \in dir.files : e[1] # name} \cup {<<name, data>>})


\* ------------------------------------------------------------- decryption

\* const BLOCK_SIZE: usize = 16
BLOCK_SIZE == 16
\* Aes256: GenericArray::from_slice(key) takes a key of 32 bytes
KEY_SIZE == 32
\* if content.len() < 20496 / &content[0..20496]
HEAD_LEN == 20496

\* What a call leaves behind: a value, an Err, or a panic of the task.
Ok(d) == [kind |-> "Ok", data |-> d]
Err == [kind |-> "Err", data |-> <<>>]
Panic == [kind |-> "Panic", data |-> <<>>]
NoResult == [kind |-> "none", data |-> <<>>]

\* u8 ^ u8
RECURSIVE Xor(_, _)
Xor(a, b) ==
    IF a = 0 THEN b
    ELSE IF b = 0 THEN a
    ELSE 2 * Xor(a \div 2, b \div 2) + ((a + b) % 2)

\* for i in 0..BLOCK_SIZE { block[i] ^= previous_block[i] }
XorBlock(x, y) == [j \in 1..BLOCK_SIZE |-> Xor(x[j], y[j])]

\* cipher.decrypt_block(&mut block): the inverse of a permutation of the
\* 16-byte blocks that the 32-byte key selects.  AES itself is a library; it is
\* represented by a keyed permutation that moves every byte to another position
\* and changes its value, so that a block taken at the wrong offset, under the
\* wrong key or chained to the wrong predecessor does not decrypt.
Rot(j) == (j % BLOCK_SIZE) + 1
RotInv(j) == ((j + BLOCK_SIZE - 2) % BLOCK_SIZE) + 1
EncryptBlock(key, b) ==
    [j \in 1..BLOCK_SIZE |-> (b[Rot(j)] + key[j] + key[j + BLOCK_SIZE]) % 256]
DecryptBlock(key, c) ==
    [j \in 1..BLOCK_SIZE |->
        (c[RotInv(j)] + 512 - key[RotInv(j)] - key[RotInv(j) + BLOCK_SIZE]) % 256]

\* encrypted_data.chunks(BLOCK_SIZE): the n-th chunk
Block(s, n) == SubSeq(s, (n - 1) * BLOCK_SIZE + 1, n * BLOCK_SIZE)

\* The loop of aes_cbc_decrypt over full chunks: every chunk is decrypted and
\* xor-ed with the chunk before it, the first one with the iv.
CbcDecryptBlocks(encrypted_data, key, iv) ==
    LET blk(n) == XorBlock(DecryptBlock(key, Block(encrypted_data, n)),
                           IF n = 1 THEN iv ELSE Block(encrypted_data, n - 1))
    IN  [x \in 1..Len(encrypted_data) |->
            blk(((x - 1) \div BLOCK_SIZE) + 1)[((x - 1) % BLOCK_SIZE) + 1]]

\* decrypted_data_with_padding.last().copied().unwrap() as usize
PaddingLenIsBlock(d) == BLOCK_SIZE
PaddingLen(d) == d[Len(d)]

\* aes_cbc_decrypt(encrypted_data, key, iv).  It panics when
\*   the key is not 32 bytes or the iv not 16 (GenericArray::from_slice),
\*   the last chunk is shorter than 16 bytes (GenericArray::clone_from_slice),
\*   there is no chunk at all (unwrap of last() on an empty vector),
\*   the last decrypted byte exceeds the length (len - padding_len overflows, or
\*   the slice is out of range where overflow checks are off).
aes_cbc_decrypt(encrypted_data, key, iv) ==
    IF Len(key) # KEY_SIZE \/ Len(iv) # BLOCK_SIZE THEN Panic
    ELSE IF Len(encrypted_data) % BLOCK_SIZE # 0 THEN Panic
    ELSE IF Len(encrypted_data) = 0 THEN Panic
    ELSE LET decrypted_data_with_padding == CbcDecryptBlocks(encrypted_data, key, iv)
             padding_len == PaddingLen(decrypted_data_with_padding)
             data_len == Len(decrypted_data_with_padding) - padding_len
         IN  IF data_len < 0 THEN Panic
             ELSE Ok(SubSeq(decrypted_data_with_padding, 1, data_len))

\* image::guess_format(&img_data).is_ok(): the data starts with the magic bytes
\* of an image container (here JPEG and PNG; no container starts with byte 1).
MagicBytes == {<<255, 216, 255>>, <<137, 80, 78, 71, 13, 10, 26, 10>>}
GuessFormatIsOk(img_data) ==
    \E m \in MagicBytes : Len(img_data) >= Len(m) /\ SubSeq(img_data, 1, Len(m)) = m

\* BigEndian::read_u32(&img_data[1..5])
ReadU32(b) == ((b[1] * 256 + b[2]) * 256 + b[3]) * 256 + b[4]

\* general_purpose::STANDARD.decode(cpx_text).  A character of cpx is its index
\* in the base64 alphabet (0..63), 64 for '=', anything larger for a character
\* outside the alphabet.  percent_decode_str changes nothing in such a text: it
\* holds no '%'.  The decoder wants whole groups of four characters, padding
\* only at the very end, and no stray bits in the last group.
Base64Pad == 64
Base64Decode(cpx_text) ==
    LET n == Len(cpx_text)
        pads == IF n >= 2 /\ cpx_text[n] = Base64Pad /\ cpx_text[n - 1] = Base64Pad THEN 2
                ELSE IF n >= 1 /\ cpx_text[n] = Base64Pad THEN 1 ELSE 0
        sextet(x) == IF cpx_text[x] = Base64Pad THEN 0 ELSE cpx_text[x]
        byte(x) == LET g == 4 * ((x - 1) \div 3)
                       r == (x - 1) % 3
                   IN  CASE r = 0 -> sextet(g + 1) * 4 + (sextet(g + 2) \div 16)
                         [] r = 1 -> (sextet(g + 2) % 16) * 16 + (sextet(g + 3) \div 4)
                         [] r = 2 -> (sextet(g + 3) % 4) * 64 + sextet(g + 4)
        stray == CASE pads = 2 -> sextet(n - 2) % 16
                   [] pads = 1 -> sextet(n - 1) % 4
                   [] pads = 0 -> 0
    IN  IF \/ n % 4 # 0
           \/ \E x \in 1..n : cpx_text[x] > Base64Pad
           \/ \E x \in 1..(n - pads) : cpx_text[x] = Base64Pad
           \/ stray # 0
        THEN Err
        ELSE Ok([x \in 1..((n \div 4) * 3 - pads) |-> byte(x)])

\* let iv = &cpx_char[60..76]
IvOfShifted(cpx_char) == SubSeq(cpx_char, 60, 75)
IvOf(cpx_char) == SubSeq(cpx_char, 61, 76)

\* A decrypt_img_data that looks at the flag byte before it asks whether the
\* bytes are an image already.
decrypt_img_data_flag_first(img_data, cpx) ==
    IF Len(img_data) = 0 THEN Panic
    ELSE IF img_data[1] # 1 THEN Err
    ELSE IF GuessFormatIsOk(img_data) THEN Ok(img_data)
    ELSE Panic

\* decrypt_img_data(img_data, cpx), statement by statement.  Indexing and
\* slicing out of range panic.
decrypt_img_data(img_data, cpx) ==
    IF GuessFormatIsOk(img_data) THEN Ok(img_data)
    ELSE IF Len(img_data) = 0 THEN Panic
    ELSE IF img_data[1] # 1 THEN Err
    ELSE IF Len(img_data) < 5 THEN Panic
    ELSE LET data_length == ReadU32(SubSeq(img_data, 2, 5)) IN
         IF data_length + 5 > Len(img_data) THEN Ok(img_data)
         ELSE LET cpx_char == Base64Decode(cpx) IN
              IF cpx_char.kind = "Err" THEN Err
              ELSE IF Len(cpx_char.data) < 76 THEN Panic
              ELSE LET iv == IvOf(cpx_char.data)
                       key == SubSeq(img_data, data_length + 6, Len(img_data))
                       content == SubSeq(img_data, 6, data_length + 5)
                   IN  IF Len(content) < HEAD_LEN
                       THEN aes_cbc_decrypt(content, key, iv)
                       ELSE LET img_head == aes_cbc_decrypt(SubSeq(content, 1, HEAD_LEN), key, iv)
                            IN  IF img_head.kind = "Panic" THEN Panic
                                ELSE Ok(img_head.data \o SubSeq(content, HEAD_LEN + 1, Len(content)))

\* ---- payloads handed to the decryption

NSeeds == 2          \* plaintext patterns
NKeys == 2           \* key / iv pairs
MaxPlainLen == 33    \* plaintexts of every length 0..MaxPlainLen are decrypted

\* Plaintexts: bytes that look like padding (seed 1) and bytes that do not.
Plain(len, seed) ==
    [x \in 1..len |-> IF seed % 2 = 1 THEN (x * seed) % 17 ELSE (x * 37 + seed + 198) % 256]
Key(k) == [j \in 1..KEY_SIZE |-> (j * 7 + k * 31) % 256]
Iv(k) == [j \in 1..BLOCK_SIZE |-> (j * 5 + k * 11) % 256]

\* Plaintext lengths around the point where the ciphertext reaches HEAD_LEN.
LargeLens == {HEAD_LEN - BLOCK_SIZE - 1, HEAD_LEN - BLOCK_SIZE,
              HEAD_LEN - BLOCK_SIZE + 1, HEAD_LEN + 1}

\* PKCS#7: n bytes of value n, n in 1..16, up to the next multiple of 16.
Pad(p) ==
    LET n == BLOCK_SIZE - (Len(p) % BLOCK_SIZE) IN p \o [j \in 1..n |-> n]

\* CBC encryption of the blocks lo..hi of p, the block before lo being prev.
RECURSIVE CbcEncryptRange(_, _, _, _, _)
CbcEncryptRange(p, key, prev, lo, hi) ==
    IF lo > hi THEN <<>>
    ELSE IF lo = hi THEN EncryptBlock(key, XorBlock(Block(p, lo), prev))
    ELSE LET mid == (lo + hi) \div 2
             left == CbcEncryptRange(p, key, prev, lo, mid)
         IN  left \o CbcEncryptRange(p, key,
                        SubSeq(left, Len(left) - BLOCK_SIZE + 1, Len(left)), mid + 1, hi)

CbcEncrypt(p, key, iv) == CbcEncryptRange(p, key, iv, 1, Len(p) \div BLOCK_SIZE)

U32Bytes(n) == <<(n \div 16777216) % 256, (n \div 65536) % 256, (n \div 256) % 256, n % 256>>

\* The obfuscated payload of the service: flag 1, the length of the content as
\* 4 bytes big-endian, the content, the key.  The content is the padded and
\* enciphered plaintext when that is shorter than HEAD_LEN; otherwise the
\* padded and enciphered leading part of HEAD_LEN bytes, then the rest of the
\* plaintext as it is.
Content(p, key, iv) ==
    LET lead == HEAD_LEN - BLOCK_SIZE IN
    IF Len(p) < lead THEN CbcEncrypt(Pad(p), key, iv)
    ELSE CbcEncrypt(Pad(SubSeq(p, 1, lead)), key, iv) \o SubSeq(p, lead + 1, Len(p))

Payload(content, key) == <<1>> \o U32Bytes(Len(content)) \o content \o key

Base64Encode(bytes) ==
    LET n == Len(bytes)
        groups == (n + 2) \div 3
        byte(x) == IF x <= n THEN bytes[x] ELSE 0
        char(y) == LET g == 3 * ((y - 1) \div 4)
                       r == (y - 1) % 4
                   IN  CASE r = 0 -> byte(g + 1) \div 4
                         [] r = 1 -> (byte(g + 1) % 4) * 16 + (byte(g + 2) \div 16)
                         [] r = 2 -> IF g + 2 > n THEN Base64Pad
                                     ELSE (byte(g + 2) % 16) * 4 + (byte(g + 3) \div 64)
                         [] r = 3 -> IF g + 3 > n THEN Base64Pad ELSE byte(g + 3) % 64
    IN  [y \in 1..(4 * groups) |-> char(y)]

\* The token of the url: 60 bytes that are not used, then the iv.
Token(iv) == Base64Encode([j \in 1..60 |-> (j * 3) % 256] \o iv)

DecCall(mode, case, plain, data, cpx, key, iv) ==
    [mode |-> mode, case |-> case, plain |-> plain, data |-> data, cpx |-> cpx,
     key |-> key, iv |-> iv, done |-> FALSE, result |-> NoResult]

\* No call.
DecIdle == DecCall("none", "none", <<>>, <<>>, <<>>, <<>>, <<>>)

\* A well-formed payload.
SchemeCall(len, seed, k) ==
    DecCall("img", "scheme", Plain(len, seed),
            Payload(Content(Plain(len, seed), Key(k), Iv(k)), Key(k)), Token(Iv(k)),
            Key(k), Iv(k))

\* Malformed payloads: a well-formed one damaged in one place.
MalformedCases == {"empty", "short", "flag", "token", "key", "padding", "padzero"}
Damaged(case, p, k) ==
    LET good == Payload(Content(p, Key(k), Iv(k)), Key(k))
        raw(last) == [x \in 1..(2 * BLOCK_SIZE) |-> IF x = 2 * BLOCK_SIZE THEN last ELSE x]
    IN  CASE case = "empty" -> <<>>
          [] case = "short" -> SubSeq(good, 1, 3)
          [] case = "flag" -> <<2>> \o Tail(good)
          [] case = "token" -> good
          [] case = "key" -> SubSeq(good, 1, Len(good) - 1)
          [] case = "padding" -> Payload(CbcEncrypt(raw(200), Key(k), Iv(k)), Key(k))
          [] case = "padzero" -> Payload(CbcEncrypt(raw(0), Key(k), Iv(k)), Key(k))
DamagedToken(case, k) ==
    IF case = "token" THEN Base64Encode([j \in 1..60 |-> j] \o SubSeq(Iv(k), 1, BLOCK_SIZE - 1))
    ELSE Token(Iv(k))
MalformedCall(case, seed, k) ==
    DecCall("img", case, Plain(20, seed), Damaged(case, Plain(20, seed), k),
            DamagedToken(case, k), Key(k), Iv(k))

\* Payloads for the exits decrypt_img_data takes before it deciphers: an image
\* as it is (one of them shorter than the 5-byte header), a lone flag byte
\* other than 1, a declared length one past what the buffer holds, and the
\* largest declared length the buffer still holds (no byte is left as key).
EarlyCases == {"image", "imageshort", "flagonly", "oversize", "exact"}
EarlyPayload(case, p, k) ==
    LET good == Payload(Content(p, Key(k), Iv(k)), Key(k))
        body == SubSeq(good, 6, Len(good))
    IN  CASE case = "image" -> <<137, 80, 78, 71, 13, 10, 26, 10>> \o p
          [] case = "imageshort" -> <<255, 216, 255>>
          [] case = "flagonly" -> <<2>>
          [] case = "oversize" -> <<1>> \o U32Bytes(Len(body) + 1) \o body
          [] case = "exact" -> <<1>> \o U32Bytes(Len(body)) \o body
EarlyCall(case, seed, k) ==
    DecCall("img", case, Plain(20, seed), EarlyPayload(case, Plain(20, seed), k),
            Token(Iv(k)), Key(k), Iv(k))

\* The bytes fetched from a url that has no cpx parameter: an image, a payload
\* of the scheme, or bytes decrypt_img_data would refuse.
NoCpxShapes == {"image", "scheme", "flag", "empty"}
NoCpxCall(shape, seed, k) ==
    DecCall("nocpx", "nocpx", Plain(20, seed),
            CASE shape = "image" -> EarlyPayload("image", Plain(20, seed), k)
              [] shape = "scheme" -> Payload(Content(Plain(20, seed), Key(k), Iv(k)), Key(k))
              [] shape = "flag" -> Damaged("flag", Plain(20, seed), k)
              [] shape = "empty" -> <<>>,
            <<>>, Key(k), Iv(k))

\* A padded and enciphered plaintext handed to aes_cbc_decrypt itself.
AesCall(len, seed, k) ==
    DecCall("aes", "padded", Plain(len, seed),
            CbcEncrypt(Pad(Plain(len, seed)), Key(k), Iv(k)), <<>>, Key(k), Iv(k))

\* download_image calls decrypt_img_data(image_data, &cpx)
CallDecryptImgData ==
    /\ dec.mode = "img"
    /\ ~dec.done
    /\ dec' = [dec EXCEPT !.done = TRUE, !.result = decrypt_img_data(dec.data, dec.cpx)]
    /\ UNCHANGED managerVars

\* decrypt_img_data calls aes_cbc_decrypt(content, key, iv)
CallAesCbcDecrypt ==
    /\ dec.mode = "aes"
    /\ ~dec.done
    /\ dec' = [dec EXCEPT !.done = TRUE, !.result = aes_cbc_decrypt(dec.data, dec.key, dec.iv)]
    /\ UNCHANGED managerVars

\* download_image on a url whose query has no cpx pair: None => image_data,
\* the bytes go to fs::write as they came.
CallWithoutCpx ==
    /\ dec.mode = "nocpx"
    /\ ~dec.done
    /\ dec' = [dec EXCEPT !.done = TRUE, !.result = Ok(dec.data)]
    /\ UNCHANGED managerVars


\* ------------------------------------------------------------- initial state

TaskStates == {"none", "wait", "fetching", "written", "counted", "emitting",
               "ok", "err", "panic", "joined", "aborted"}

\* DownloadManager::new: an empty channel, one semaphore per limit sized from
\* the configuration, all counters 0; nothing is on disk yet.
ManagerNew(episode_concurrency, image_concurrency) ==
    /\ queue = <<>>
    /\ kind = [i \in Items |-> "none"]
    /\ title = [i \in Items |-> 0]
    /\ pc = [i \in Items |-> "idle"]
    /\ selfEp = [i \in Items |-> 0]
    /\ selfImg = [i \in Items |-> 0]
    /\ epAvail = <<episode_concurrency>>
    /\ epSize = <<episode_concurrency>>
    /\ imgAvail = <<image_concurrency>>
    /\ imgSize = <<image_concurrency>>
    /\ resizes = 0
    /\ holdsEp = [i \in Items |-> FALSE]
    /\ total = [i \in Items |-> 0]
    /\ task = [i \in Items |-> [k \in Ords |-> "none"]]
    /\ current = [i \in Items |-> 0]
    /\ downloaded_image_count = 0
    /\ total_image_count = 0
    /\ ld = [i \in Items |-> 0]
    /\ fs = [p \in Paths |-> Absent]
    /\ pendingCnt = [i \in Items |-> 0]
    /\ startCnt = [i \in Items |-> 0]
    /\ endCnt = [i \in Items |-> 0]
    /\ endMsg = [i \in Items |-> <<"unset">>]
    /\ errorCnt = [i \in Items |-> 0]
    /\ successCnt = [i \in Items |-> 0]
    /\ spawnCnt = [i \in Items |-> 0]
    /\ exitPath = [i \in Items |-> "running"]
    /\ archiveCalls = [i \in Items |-> 0]
    /\ savedAs = [i \in Items |-> [k \in Ords |-> <<>>]]
    /\ resizedInFlight = {}
    /\ archivedAs = [i \in Items |-> "none"]
    /\ byte_per_sec = 0
    /\ drainedBytes = 0
    /\ localCurrent = [i \in Items |-> [k \in Ords |-> 0]]
    /\ successCurrent = [i \in Items |-> {}]

\* The manager as constructed; no decryption is under observation.
InitWith(episode_concurrency, image_concurrency) ==
    /\ ManagerNew(episode_concurrency, image_concurrency)
    /\ dec = DecIdle

\* The configuration holds any pair of limits.
Init == \E e \in 1..MaxConc, m \in 1..MaxConc : InitWith(e, m)

\* The configuration holds the largest limits.
InitLargest == InitWith(MaxConc, MaxConc)

\* Groups of variables an action leaves alone.
poolVars == <<epAvail, epSize, imgAvail, imgSize, resizes, resizedInFlight>>
countVars == <<downloaded_image_count, total_image_count>>
eventVars == <<pendingCnt, startCnt, endCnt, endMsg, errorCnt, successCnt>>
imageVars == <<task, current, savedAs>>
procVars == <<selfEp, selfImg, holdsEp, total, ld, spawnCnt, archiveCalls>>
speedVars == <<byte_per_sec, drainedBytes>>
carriedVars == <<localCurrent, successCurrent>>

\* ------------------------------------------------------------- manager API

\* self.sender.send(value).await: waits while the channel is full.  Items are
\* numbered in the order of their submission.  The titles of item i are new
\* (t = i) or those of an earlier item t of the same variant; titles shared
\* across variants never meet on disk, so they count as different.
Send(i, k, t) ==
    /\ pc[i] = "idle"
    /\ \A j \in 1..(i - 1) : pc[j] # "idle"
    /\ t = i \/ (t < i /\ kind[t] = k /\ title[t] = t)
    /\ Len(queue) < ChannelCapacity
    /\ queue' = Append(queue, i)
    /\ kind' = [kind EXCEPT ![i] = k]
    /\ title' = [title EXCEPT ![i] = t]
    /\ pc' = [pc EXCEPT ![i] = "queued"]
    /\ UNCHANGED <<speedVars, carriedVars, dec, archivedAs, exitPath, poolVars, countVars, eventVars, imageVars, procVars, fs>>

submit_episode(i, t) == Send(i, "Episode", t)

submit_album_plus(i, t) == Send(i, "AlbumPlus", t)

\* self.ep_sem = Arc::new(Semaphore::new(concurrency)): a new semaphore takes
\* the place of the old one in the managed DownloadManager; clones made
\* earlier keep the Arc of the old one.
set_episode_concurrency(n) ==
    /\ resizes < MaxResizes
    /\ epAvail' = Append(epAvail, n)
    /\ epSize' = Append(epSize, n)
    /\ resizes' = resizes + 1
    /\ UNCHANGED <<speedVars, carriedVars, dec, archivedAs, exitPath, queue, kind, title, pc, imgAvail, imgSize, resizedInFlight,
                   countVars, eventVars, imageVars, procVars, fs>>

set_image_concurrency(n) ==
    /\ resizes < MaxResizes
    /\ imgAvail' = Append(imgAvail, n)
    /\ imgSize' = Append(imgSize, n)
    /\ resizes' = resizes + 1
    /\ resizedInFlight' = resizedInFlight \cup
          {i \in Items : \E k \in Ords : task[i][k] \in {"wait", "fetching"}}
    /\ UNCHANGED <<speedVars, carriedVars, dec, archivedAs, exitPath, queue, kind, title, pc, epAvail, epSize,
                   countVars, eventVars, imageVars, procVars, fs>>

\* ------------------------------------------------------------- dispatcher

\* One iteration of receiver_loop: receive a payload, clone the managed
\* DownloadManager (the clone shares the semaphores current at this moment)
\* and spawn the processor.  No semaphore is touched here.
ReceiveGuardNeedsSlot == queue # <<>> /\ epAvail[Len(epAvail)] > 0
ReceiveGuard == queue # <<>>

receiver_loop ==
    /\ ReceiveGuard
    /\ LET i == Head(queue) IN
        /\ queue' = Tail(queue)
        /\ selfEp' = [selfEp EXCEPT ![i] = Len(epAvail)]
        /\ selfImg' = [selfImg EXCEPT ![i] = Len(imgAvail)]
        /\ spawnCnt' = [spawnCnt EXCEPT ![i] = @ + 1]
        /\ pc' = [pc EXCEPT ![i] = "spawned"]
    /\ UNCHANGED <<speedVars, carriedVars, dec, archivedAs, exitPath, kind, title, poolVars, countVars, eventVars, imageVars,
                   holdsEp, total, ld, archiveCalls, fs>>

\* ------------------------------------------------------------- item processor

\* A permit that is forgotten (std::mem::forget) instead of dropped.
ReleaseEpLeaks(i) == epAvail

\* drop(permit), explicit or at the return: the item-level permit goes back to
\* the semaphore it was acquired from.
ReleaseEp(i) ==
    IF holdsEp[i] THEN [epAvail EXCEPT ![selfEp[i]] = @ + 1] ELSE epAvail

\* emit_end_event(&self.app, id, err_msg)
EmitEnd(i, msg) ==
    /\ endCnt' = [endCnt EXCEPT ![i] = @ + 1]
    /\ endMsg' = [endMsg EXCEPT ![i] = msg]

\* The processor is over, having left by the return statement `why`.
Return(i, why) ==
    /\ pc' = [pc EXCEPT ![i] = "done"]
    /\ exitPath' = [exitPath EXCEPT ![i] = why]

\* `?` on an Err: the processor returns the error to the runtime, which drops
\* it; nothing is emitted.
ReturnErr(i, why) ==
    /\ Return(i, why)
    /\ UNCHANGED <<endCnt, endMsg>>

\* process_episode / process_album_plus, first lines: emit_pending_event, then
\* the first request to the API collaborator is awaited.
EmitPending(i) ==
    /\ pc[i] = "spawned"
    /\ pendingCnt' = [pendingCnt EXCEPT ![i] = @ + 1]
    /\ pc' = [pc EXCEPT ![i] = IF kind[i] = "Episode" THEN "index" ELSE "token"]
    /\ UNCHANGED <<speedVars, carriedVars, dec, archivedAs, exitPath, queue, kind, title, poolVars, countVars, startCnt, endCnt, endMsg,
                   errorCnt, successCnt, imageVars, procVars, fs>>

\* bili_client.get_image_index(episode_id).await? (episodes only)
GetImageIndex(i, ok) ==
    /\ pc[i] = "index"
    /\ IF ok THEN pc' = [pc EXCEPT ![i] = "token"] /\ UNCHANGED <<endCnt, endMsg, exitPath>>
             ELSE ReturnErr(i, "index")
    /\ UNCHANGED <<speedVars, carriedVars, dec, archivedAs, queue, kind, title, poolVars, countVars, pendingCnt, startCnt,
                   errorCnt, successCnt, imageVars, procVars, fs>>

\* bili_client.get_image_token(..).await?: on success the list of n complete
\* urls, which fixes `total`.
GetImageToken(i, ok, n) ==
    /\ pc[i] = "token"
    /\ IF ok THEN /\ pc' = [pc EXCEPT ![i] = "mkdir"]
                  /\ total' = [total EXCEPT ![i] = n]
                  /\ UNCHANGED <<endCnt, endMsg, exitPath>>
             ELSE /\ ReturnErr(i, "token")
                  /\ UNCHANGED total
    /\ UNCHANGED <<speedVars, carriedVars, dec, archivedAs, queue, kind, title, poolVars, countVars, pendingCnt, startCnt,
                   errorCnt, successCnt, imageVars, selfEp, selfImg, holdsEp, ld,
                   spawnCnt, archiveCalls, fs>>

\* std::fs::create_dir_all(&temp_download_dir)...?: an existing directory is
\* kept as it is.
CreateDirAll(i, ok) ==
    /\ pc[i] = "mkdir"
    /\ IF ok THEN /\ fs' = [fs EXCEPT ![TempDir(i)] = IF @.exists THEN @ ELSE Dir({})]
                  /\ pc' = [pc EXCEPT ![i] = "addtotal"]
                  /\ UNCHANGED <<endCnt, endMsg, exitPath>>
             ELSE /\ ReturnErr(i, "mkdir")
                  /\ UNCHANGED fs
    /\ UNCHANGED <<speedVars, carriedVars, dec, archivedAs, queue, kind, title, poolVars, countVars, pendingCnt, startCnt,
                   errorCnt, successCnt, imageVars, procVars>>

\* self.total_image_count.fetch_add(total, Ordering::Relaxed)
AddTotal(i) ==
    /\ pc[i] = "addtotal"
    /\ total_image_count' = total_image_count + total[i]
    /\ pc' = [pc EXCEPT ![i] = "acquire"]
    /\ UNCHANGED <<speedVars, carriedVars, dec, archivedAs, exitPath, queue, kind, title, poolVars, downloaded_image_count, eventVars,
                   imageVars, procVars, fs>>

\* let permit = self.ep_sem.acquire().await?; then emit_start_event and the
\* loop that spawns one download_image task per url.  The semaphore is never
\* closed, so acquire() never returns Err.
EpSlotAlwaysFree(i) == TRUE
EpSlotFree(i) == epAvail[selfEp[i]] > 0

AcquireEp(i) ==
    /\ pc[i] = "acquire"
    /\ EpSlotFree(i)
    /\ epAvail' = [epAvail EXCEPT ![selfEp[i]] = @ - 1]
    /\ holdsEp' = [holdsEp EXCEPT ![i] = TRUE]
    /\ startCnt' = [startCnt EXCEPT ![i] = @ + 1]
    /\ task' = [task EXCEPT ![i] = [k \in Ords |-> IF k <= total[i] THEN "wait" ELSE "none"]]
    /\ pc' = [pc EXCEPT ![i] = "joining"]
    /\ UNCHANGED <<speedVars, carriedVars, dec, archivedAs, exitPath, queue, kind, title, epSize, imgAvail, imgSize, resizes, resizedInFlight,
                   countVars, pendingCnt, endCnt, endMsg, errorCnt, successCnt,
                   current, savedAs, selfEp, selfImg, total, ld, spawnCnt,
                   archiveCalls, fs>>

\* ------------------------------------------------------------- image task

\* download_image, up to the request: self.img_sem.acquire().await.  The
\* semaphore is never closed, so the Err arm is never taken.
ImgSlotAlwaysFree(i) == TRUE
ImgSlotFree(i) == imgAvail[selfImg[i]] > 0

AcquireImg(i, k) ==
    /\ task[i][k] = "wait"
    /\ ImgSlotFree(i)
    /\ imgAvail' = [imgAvail EXCEPT ![selfImg[i]] = @ - 1]
    /\ task' = [task EXCEPT ![i][k] = "fetching"]
    /\ UNCHANGED <<speedVars, carriedVars, dec, archivedAs, exitPath, queue, kind, title, pc, epAvail, epSize, imgSize, resizes,
                   resizedInFlight, countVars, eventVars, current, savedAs, procVars, fs>>

\* image_data.len(): the bytes of image k of item i.
ImageLen(i, k) == k

\* A `current` read before the increment instead of fetch_add's result + 1.
CompletedCountStale(i) == current[i]

\* let current = current.fetch_add(1, Ordering::Relaxed) + 1
CompletedCount(i) == current[i] + 1

\* download_image from the answer of the GET to its end.  The permit is given
\* back (drop(permit), or the early return), then
\*   "ok":    the bytes are written to save_path, byte_per_sec.fetch_add(len),
\*            current.fetch_add(1) and emit_success_event with the new count;
\*   "err":   get_image_bytes, Url::parse, decrypt_img_data or fs::write
\*            returned Err: emit_error_event and return;
\*   "panic": decrypt_img_data or aes_cbc_decrypt panicked on a malformed
\*            payload (an index or a slice out of range, a key of the wrong
\*            length, unwrap on an empty buffer): the task ends with no event.
\* fs::write needs the directory of save_path to exist.
FinishImage(i, k, outcome) ==
    /\ task[i][k] = "fetching"
    /\ imgAvail' = [imgAvail EXCEPT ![selfImg[i]] = @ + 1]
    /\ task' = [task EXCEPT ![i][k] = outcome]
    /\ CASE outcome = "ok" ->
              /\ fs[TempDir(i)].exists
              /\ fs' = [fs EXCEPT ![TempDir(i)] = WriteFile(@, SavePath(k - 1), <<i, k>>)]
              /\ savedAs' = [savedAs EXCEPT ![i][k] = SavePath(k - 1)]
              /\ byte_per_sec' = byte_per_sec + ImageLen(i, k)
              /\ current' = [current EXCEPT ![i] = @ + 1]
              /\ successCnt' = [successCnt EXCEPT ![i] = @ + 1]
              /\ successCurrent' = [successCurrent EXCEPT ![i] = @ \cup {CompletedCount(i)}]
              /\ UNCHANGED errorCnt
         [] outcome = "err" ->
              /\ errorCnt' = [errorCnt EXCEPT ![i] = @ + 1]
              /\ UNCHANGED <<fs, savedAs, current, successCnt, byte_per_sec, successCurrent>>
         [] outcome = "panic" ->
              UNCHANGED <<fs, savedAs, current, successCnt, errorCnt, byte_per_sec,
                          successCurrent>>
    /\ UNCHANGED <<drainedBytes, localCurrent, dec, archivedAs, exitPath, queue, kind, title, pc, epAvail, epSize, imgSize, resizes,
                   resizedInFlight, countVars, pendingCnt, startCnt, endCnt, endMsg,
                   procVars>>

\* ------------------------------------------- the image task, one statement at a time

\* The "ok" path of download_image statement by statement, for the properties
\* another thread can tell apart between two of its statements.  Nothing awaits
\* after the fetch, so a task that is past it runs to its end even when its
\* JoinSet has been dropped.

\* The answer of the GET is there, drop(permit), the url parses, the data
\* decrypts, std::fs::write(&save_path, &image_data) succeeds.
WriteImage(i, k) ==
    /\ task[i][k] = "fetching"
    /\ fs[TempDir(i)].exists
    /\ imgAvail' = [imgAvail EXCEPT ![selfImg[i]] = @ + 1]
    /\ task' = [task EXCEPT ![i][k] = "written"]
    /\ fs' = [fs EXCEPT ![TempDir(i)] = WriteFile(@, SavePath(k - 1), <<i, k>>)]
    /\ savedAs' = [savedAs EXCEPT ![i][k] = SavePath(k - 1)]
    /\ UNCHANGED <<speedVars, carriedVars, dec, archivedAs, exitPath, queue, kind, title, pc,
                   epAvail, epSize, imgSize, resizes, resizedInFlight, countVars, eventVars,
                   current, procVars>>

\* self.byte_per_sec.fetch_add(image_data.len() as u64, Ordering::Relaxed)
AddBytePerSec(i, k) ==
    /\ task[i][k] = "written"
    /\ task' = [task EXCEPT ![i][k] = "counted"]
    /\ byte_per_sec' = byte_per_sec + ImageLen(i, k)
    /\ UNCHANGED <<drainedBytes, carriedVars, dec, archivedAs, exitPath, queue, kind, title, pc,
                   poolVars, countVars, eventVars, current, savedAs, procVars, fs>>

\* let current = current.fetch_add(1, Ordering::Relaxed) + 1
AddCurrent(i, k) ==
    /\ task[i][k] = "counted"
    /\ task' = [task EXCEPT ![i][k] = "emitting"]
    /\ localCurrent' = [localCurrent EXCEPT ![i][k] = CompletedCount(i)]
    /\ current' = [current EXCEPT ![i] = @ + 1]
    /\ UNCHANGED <<speedVars, successCurrent, dec, archivedAs, exitPath, queue, kind, title, pc,
                   poolVars, countVars, eventVars, savedAs, procVars, fs>>

\* emit_success_event(&self.app, id, save_path, current); the task ends.
EmitSuccess(i, k) ==
    /\ task[i][k] = "emitting"
    /\ task' = [task EXCEPT ![i][k] = "ok"]
    /\ successCnt' = [successCnt EXCEPT ![i] = @ + 1]
    /\ successCurrent' = [successCurrent EXCEPT ![i] = @ \cup {localCurrent[i][k]}]
    /\ localCurrent' = [localCurrent EXCEPT ![i][k] = 0]
    /\ UNCHANGED <<speedVars, dec, archivedAs, exitPath, queue, kind, title, pc, poolVars,
                   countVars, pendingCnt, startCnt, endCnt, endMsg, errorCnt, current, savedAs,
                   procVars, fs>>

\* ------------------------------------------------------------- speed sampler

\* A swap that reads the counter and leaves it as it was.
AfterSwapKeeps(old, new) == old

\* AtomicU64::swap(new): the value the counter holds afterwards.
AfterSwap(old, new) == new

\* log_download_speed, one tick of its 1-second interval: byte_per_sec.swap(0)
\* takes the counter's value and leaves 0 in one step; the value goes out in
\* the download_speed event.
log_download_speed ==
    /\ drainedBytes' = drainedBytes + byte_per_sec
    /\ byte_per_sec' = AfterSwap(byte_per_sec, 0)
    /\ UNCHANGED <<carriedVars, dec, archivedAs, exitPath, queue, kind, title, pc, poolVars,
                   countVars, eventVars, imageVars, procVars, fs>>

\* ------------------------------------------------------------- join loop

Finished(st) == st \in {"ok", "err", "panic"}
Running(st) == st \in {"wait", "fetching"}

\* join_set.join_next().await yields a finished task.
\*   Err(JoinError), the task panicked: `completed_task?` returns from the
\*   processor; the JoinSet is dropped, which aborts the tasks still running
\*   (their image permits are released), and the item permit is dropped.
\*   Ok: self.downloaded_image_count.fetch_add(1).
JoinNext(i, k) ==
    /\ pc[i] = "joining"
    /\ Finished(task[i][k])
    /\ IF task[i][k] = "panic"
       THEN /\ task' = [task EXCEPT ![i] =
                  [j \in Ords |-> IF Running(task[i][j]) THEN "aborted" ELSE task[i][j]]]
            /\ imgAvail' = [imgAvail EXCEPT ![selfImg[i]] =
                  @ + Cardinality({j \in Ords : task[i][j] = "fetching"})]
            /\ epAvail' = ReleaseEp(i)
            /\ holdsEp' = [holdsEp EXCEPT ![i] = FALSE]
            /\ ReturnErr(i, "join")
            /\ UNCHANGED downloaded_image_count
       ELSE /\ task' = [task EXCEPT ![i][k] = "joined"]
            /\ downloaded_image_count' = downloaded_image_count + 1
            /\ pc' = [pc EXCEPT ![i] = "loadD"]
            /\ UNCHANGED <<imgAvail, epAvail, holdsEp, endCnt, endMsg, exitPath>>
    /\ UNCHANGED <<speedVars, carriedVars, dec, archivedAs, queue, kind, title, epSize, imgSize, resizes, resizedInFlight,
                   total_image_count, pendingCnt, startCnt, errorCnt, successCnt,
                   current, savedAs, selfEp, selfImg, total, ld, spawnCnt,
                   archiveCalls, fs>>

\* let downloaded_image_count = self.downloaded_image_count.load(..)
LoadDownloaded(i) ==
    /\ pc[i] = "loadD"
    /\ ld' = [ld EXCEPT ![i] = downloaded_image_count]
    /\ pc' = [pc EXCEPT ![i] = "loadT"]
    /\ UNCHANGED <<speedVars, carriedVars, dec, archivedAs, exitPath, queue, kind, title, poolVars, countVars, eventVars, imageVars,
                   selfEp, selfImg, holdsEp, total, spawnCnt, archiveCalls, fs>>

\* let total_image_count = self.total_image_count.load(..); then
\* emit_update_overall_progress_event(downloaded_image_count, total_image_count)
LoadTotal(i) ==
    /\ pc[i] = "loadT"
    /\ ld' = [ld EXCEPT ![i] = 0]
    /\ pc' = [pc EXCEPT ![i] = "joining"]
    /\ UNCHANGED <<speedVars, carriedVars, dec, archivedAs, exitPath, queue, kind, title, poolVars, countVars, eventVars, imageVars,
                   selfEp, selfImg, holdsEp, total, spawnCnt, archiveCalls, fs>>

\* join_next() yields None: every task was joined.  An episode goes on to
\* tokio::time::sleep(episode_download_interval) with the permit still alive;
\* an album-plus item drops the permit at once.
JoinDoneWhileRunning(i) ==
    /\ pc[i] = "joining"
    /\ pc' = [pc EXCEPT ![i] = IF kind[i] = "Episode" THEN "sleep" ELSE "chkD"]
    /\ epAvail' = IF kind[i] = "Episode" THEN epAvail ELSE ReleaseEp(i)
    /\ holdsEp' = [holdsEp EXCEPT ![i] = @ /\ kind[i] = "Episode"]
    /\ UNCHANGED <<speedVars, carriedVars, dec, archivedAs, exitPath, queue, kind, title, epSize, imgAvail, imgSize,
                   resizes, resizedInFlight, countVars, eventVars, imageVars, selfEp, selfImg,
                   total, ld, spawnCnt, archiveCalls, fs>>
JoinDoneDropsPermit(i) ==
    /\ pc[i] = "joining"
    /\ \A k \in Ords : task[i][k] \in {"none", "joined"}
    /\ pc' = [pc EXCEPT ![i] = IF kind[i] = "Episode" THEN "sleep" ELSE "chkD"]
    /\ epAvail' = ReleaseEp(i)
    /\ holdsEp' = [holdsEp EXCEPT ![i] = FALSE]
    /\ UNCHANGED <<speedVars, carriedVars, dec, archivedAs, exitPath, queue, kind, title, epSize, imgAvail, imgSize,
                   resizes, resizedInFlight, countVars, eventVars, imageVars, selfEp, selfImg,
                   total, ld, spawnCnt, archiveCalls, fs>>
JoinDone(i) ==
    /\ pc[i] = "joining"
    /\ \A k \in Ords : task[i][k] \in {"none", "joined"}
    /\ IF kind[i] = "Episode"
       THEN /\ pc' = [pc EXCEPT ![i] = "sleep"]
            /\ UNCHANGED <<epAvail, holdsEp>>
       ELSE /\ pc' = [pc EXCEPT ![i] = "chkD"]
            /\ epAvail' = ReleaseEp(i)
            /\ holdsEp' = [holdsEp EXCEPT ![i] = FALSE]
    /\ UNCHANGED <<speedVars, carriedVars, dec, archivedAs, exitPath, queue, kind, title, epSize, imgAvail, imgSize, resizes,
                   resizedInFlight, countVars, eventVars, imageVars, selfEp, selfImg,
                   total, ld, spawnCnt, archiveCalls, fs>>

\* The sleep is over: drop(permit).
SleepThenDrop(i) ==
    /\ pc[i] = "sleep"
    /\ epAvail' = ReleaseEp(i)
    /\ holdsEp' = [holdsEp EXCEPT ![i] = FALSE]
    /\ pc' = [pc EXCEPT ![i] = "chkD"]
    /\ UNCHANGED <<speedVars, carriedVars, dec, archivedAs, exitPath, queue, kind, title, epSize, imgAvail, imgSize, resizes,
                   resizedInFlight, countVars, eventVars, imageVars, selfEp, selfImg,
                   total, ld, spawnCnt, archiveCalls, fs>>

\* ------------------------------------------------------------- progress reset

\* let downloaded_image_count = self.downloaded_image_count.load(..)
CheckLoadDownloaded(i) ==
    /\ pc[i] = "chkD"
    /\ ld' = [ld EXCEPT ![i] = downloaded_image_count]
    /\ pc' = [pc EXCEPT ![i] = "chkT"]
    /\ UNCHANGED <<speedVars, carriedVars, dec, archivedAs, exitPath, queue, kind, title, poolVars, countVars, eventVars, imageVars,
                   selfEp, selfImg, holdsEp, total, spawnCnt, archiveCalls, fs>>

\* let total_image_count = self.total_image_count.load(..);
\* if downloaded_image_count == total_image_count { .. }
CheckLoadTotal(i) ==
    /\ pc[i] = "chkT"
    /\ ld' = [ld EXCEPT ![i] = 0]
    /\ pc' = [pc EXCEPT ![i] = IF ld[i] = total_image_count THEN "rstD" ELSE "final"]
    /\ UNCHANGED <<speedVars, carriedVars, dec, archivedAs, exitPath, queue, kind, title, poolVars, countVars, eventVars, imageVars,
                   selfEp, selfImg, holdsEp, total, spawnCnt, archiveCalls, fs>>

\* self.downloaded_image_count.store(0, ..)
ResetDownloaded(i) ==
    /\ pc[i] = "rstD"
    /\ downloaded_image_count' = 0
    /\ pc' = [pc EXCEPT ![i] = "rstT"]
    /\ UNCHANGED <<speedVars, carriedVars, dec, archivedAs, exitPath, queue, kind, title, poolVars, total_image_count, eventVars,
                   imageVars, procVars, fs>>

\* self.total_image_count.store(0, ..)
ResetTotal(i) ==
    /\ pc[i] = "rstT"
    /\ total_image_count' = 0
    /\ pc' = [pc EXCEPT ![i] = "final"]
    /\ UNCHANGED <<speedVars, carriedVars, dec, archivedAs, exitPath, queue, kind, title, poolVars, downloaded_image_count, eventVars,
                   imageVars, procVars, fs>>

\* ------------------------------------------------------------- finalization

\* format!("总共有 {total} 张图片，但只下载了 {current} 张"): the message names
\* the total first and the downloaded count second.
PartialMsg(t, c) == <<"partial", t, c>>

\* let current = current.load(..); if current != total { emit_end_event(..
\* Some(err_msg)); return Ok(()) }: the same test in both processors.
EndPartial(i) ==
    /\ pc[i] = "final"
    /\ current[i] # total[i]
    /\ EmitEnd(i, PartialMsg(total[i], current[i]))
    /\ Return(i, "partial")
    /\ UNCHANGED <<speedVars, carriedVars, dec, archivedAs, queue, kind, title, poolVars, countVars, pendingCnt, startCnt,
                   errorCnt, successCnt, imageVars, procVars, fs>>

\* save_archive(&ep_info, &temp_download_dir), and the "end" event that
\* process_episode emits from its result.  archive_format is read from the
\* configuration at this moment; the configuration is written by the settings
\* command at any time, so any format may be found.  `failure` is the step
\* that fails:
\*   Image:   "early" remove_dir_all(download_dir), "late" rename;
\*   Zip/Cbz: "early" serializing or writing ComicInfo.xml, "late"
\*            remove_dir_all(temp_download_dir);
\*   "none":  every step succeeds.
\* Both Cbz and Zip write ComicInfo.xml into the temp directory first, and the
\* archive takes every regular file of the directory.  temp_download_dir always
\* has a parent, so the let-else arm is never taken.
ArchiveFsMerges(i, archive_format, failure) ==
    [fs EXCEPT ![DownloadDir(i)] = Dir(@.files \cup fs[TempDir(i)].files)]
ArchiveFs(i, archive_format, failure) ==
    LET temp == fs[TempDir(i)]
        withInfo == WriteFile(temp, ComicInfoXml, <<i, 0>>)
        zip == ZipPath(i, archive_format)
    IN  CASE failure = "early" -> fs
          [] archive_format = "Image" /\ failure = "late" ->
                [fs EXCEPT ![DownloadDir(i)] = Absent]
          [] archive_format = "Image" /\ failure = "none" ->
                [fs EXCEPT ![DownloadDir(i)] = temp, ![TempDir(i)] = Absent]
          [] archive_format # "Image" /\ failure = "late" ->
                [fs EXCEPT ![TempDir(i)] = withInfo, ![zip] = withInfo]
          [] archive_format # "Image" /\ failure = "none" ->
                [fs EXCEPT ![TempDir(i)] = Absent, ![zip] = withInfo]

ArchivePossible(i, archive_format, failure) ==
    IF archive_format = "Image"
    THEN CASE failure = "early" -> fs[DownloadDir(i)].exists
           [] failure = "late" -> TRUE
           [] failure = "none" -> fs[TempDir(i)].exists
    ELSE failure = "early" \/ fs[TempDir(i)].exists

save_archive(i, archive_format, failure) ==
    /\ pc[i] = "final"
    /\ kind[i] = "Episode"
    /\ current[i] = total[i]
    /\ ArchivePossible(i, archive_format, failure)
    /\ fs' = ArchiveFs(i, archive_format, failure)
    /\ archiveCalls' = [archiveCalls EXCEPT ![i] = @ + 1]
    /\ archivedAs' = [archivedAs EXCEPT ![i] = archive_format]
    /\ EmitEnd(i, IF failure = "none" THEN <<"ok">> ELSE <<"error">>)
    /\ Return(i, "archived")
    /\ UNCHANGED <<speedVars, carriedVars, dec, queue, kind, title, poolVars, countVars, pendingCnt, startCnt,
                   errorCnt, successCnt, imageVars, selfEp, selfImg, holdsEp, total,
                   ld, spawnCnt>>

\* process_album_plus with current == total: std::fs::rename(&temp_download_dir,
\* &download_dir)...?, then emit_end_event(.., None).  The rename fails when the
\* temp directory is gone or the target is a directory that is not empty; its
\* Err is returned with `?`.
RenamePossible(i) ==
    /\ fs[TempDir(i)].exists
    /\ fs[DownloadDir(i)].files = {}

AlbumPlusRename(i, ok) ==
    /\ pc[i] = "final"
    /\ kind[i] = "AlbumPlus"
    /\ current[i] = total[i]
    /\ archiveCalls' = [archiveCalls EXCEPT ![i] = @ + 1]
    /\ IF ok THEN /\ RenamePossible(i)
                  /\ fs' = [fs EXCEPT ![DownloadDir(i)] = fs[TempDir(i)],
                                      ![TempDir(i)] = Absent]
                  /\ EmitEnd(i, <<"ok">>)
                  /\ Return(i, "renamed")
             ELSE /\ ReturnErr(i, "rename")
                  /\ UNCHANGED fs
    /\ UNCHANGED <<speedVars, carriedVars, dec, archivedAs, queue, kind, title, poolVars, countVars, pendingCnt, startCnt,
                   errorCnt, successCnt, imageVars, selfEp, selfImg, holdsEp, total,
                   ld, spawnCnt>>

\* ------------------------------------------------------------- specification

Failures == {"none", "early", "late"}

\* The dispatcher, the episode processor and the image tasks, with the archive
\* formats the configuration may hold.
Engine(formats) ==
    \/ receiver_loop
    \/ \E i \in Items : EmitPending(i)
    \/ \E i \in Items, ok \in BOOLEAN : GetImageIndex(i, ok)
    \/ \E i \in Items, ok \in BOOLEAN, n \in 0..MaxImgs : GetImageToken(i, ok, n)
    \/ \E i \in Items, ok \in BOOLEAN : CreateDirAll(i, ok)
    \/ \E i \in Items : AddTotal(i)
    \/ \E i \in Items : AcquireEp(i)
    \/ \E i \in Items, k \in Ords : AcquireImg(i, k)
    \/ \E i \in Items, k \in Ords, o \in {"ok", "err", "panic"} : FinishImage(i, k, o)
    \/ \E i \in Items, k \in Ords : JoinNext(i, k)
    \/ \E i \in Items : LoadDownloaded(i)
    \/ \E i \in Items : LoadTotal(i)
    \/ \E i \in Items : JoinDone(i)
    \/ \E i \in Items : SleepThenDrop(i)
    \/ \E i \in Items : CheckLoadDownloaded(i)
    \/ \E i \in Items : CheckLoadTotal(i)
    \/ \E i \in Items : ResetDownloaded(i)
    \/ \E i \in Items : ResetTotal(i)
    \/ \E i \in Items : EndPartial(i)
    \/ \E i \in Items, fmt \in formats, f \in Failures : save_archive(i, fmt, f)

\* Episodes and album-plus items are submitted and processed; the pools keep
\* the sizes the manager was constructed with.
Next ==
    \/ \E i \in Items, t \in Titles : submit_episode(i, t)
    \/ \E i \in Items, t \in Titles : submit_album_plus(i, t)
    \/ \E i \in Items, ok \in BOOLEAN : AlbumPlusRename(i, ok)
    \/ Engine(Formats)

Spec == Init /\ [][Next]_vars

\* Episodes with titles of their own are submitted and processed while the
\* settings command resizes the pools, which start with the largest limits;
\* the archive format stays the plain directory.
NextResize ==
    \/ \E i \in Items : submit_episode(i, i)
    \/ \E n \in 1..MaxConc : set_episode_concurrency(n)
    \/ \E n \in 1..MaxConc : set_image_concurrency(n)
    \/ Engine({"Image"})

SpecResize == InitLargest /\ [][NextResize]_vars

\* Episodes with titles of their own are submitted and processed with the
\* largest limits and the plain directory as archive format, while the speed
\* sampler ticks; an image task that succeeds runs statement by statement.
NextSteps ==
    \/ \E i \in Items : submit_episode(i, i)
    \/ receiver_loop
    \/ \E i \in Items : EmitPending(i)
    \/ \E i \in Items, ok \in BOOLEAN : GetImageIndex(i, ok)
    \/ \E i \in Items, ok \in BOOLEAN, n \in 0..MaxImgs : GetImageToken(i, ok, n)
    \/ \E i \in Items, ok \in BOOLEAN : CreateDirAll(i, ok)
    \/ \E i \in Items : AddTotal(i)
    \/ \E i \in Items : AcquireEp(i)
    \/ \E i \in Items, k \in Ords : AcquireImg(i, k)
    \/ \E i \in Items, k \in Ords, o \in {"err", "panic"} : FinishImage(i, k, o)
    \/ \E i \in Items, k \in Ords : WriteImage(i, k)
    \/ \E i \in Items, k \in Ords : AddBytePerSec(i, k)
    \/ \E i \in Items, k \in Ords : AddCurrent(i, k)
    \/ \E i \in Items, k \in Ords : EmitSuccess(i, k)
    \/ log_download_speed
    \/ \E i \in Items, k \in Ords : JoinNext(i, k)
    \/ \E i \in Items : LoadDownloaded(i)
    \/ \E i \in Items : LoadTotal(i)
    \/ \E i \in Items : JoinDone(i)
    \/ \E i \in Items : SleepThenDrop(i)
    \/ \E i \in Items : CheckLoadDownloaded(i)
    \/ \E i \in Items : CheckLoadTotal(i)
    \/ \E i \in Items : ResetDownloaded(i)
    \/ \E i \in Items : ResetTotal(i)
    \/ \E i \in Items : EndPartial(i)
    \/ \E i \in Items, f \in Failures : save_archive(i, "Image", f)

SpecSteps == InitLargest /\ [][NextSteps]_vars

\* One call of the decryption on a payload of the service, well-formed or
\* damaged, or of the cipher routine on a padded and enciphered plaintext.
InitDecrypt ==
    /\ ManagerNew(MaxConc, MaxConc)
    /\ \E seed \in 1..NSeeds, k \in 1..NKeys :
          \/ \E len \in (0..MaxPlainLen) \cup LargeLens : dec = SchemeCall(len, seed, k)
          \/ \E case \in MalformedCases : dec = MalformedCall(case, seed, k)
          \/ \E len \in 0..MaxPlainLen : dec = AesCall(len, seed, k)
          \/ \E case \in EarlyCases : dec = EarlyCall(case, seed, k)
          \/ \E shape \in NoCpxShapes : dec = NoCpxCall(shape, seed, k)

NextDecrypt ==
    \/ CallDecryptImgData
    \/ CallAesCbcDecrypt
    \/ CallWithoutCpx

SpecDecrypt == InitDecrypt /\ [][NextDecrypt]_vars


\* ------------------------------------------------------------- properties

\* The Downloading phase: from the "start" event to drop(permit).
Downloading(i) == pc[i] \in {"joining", "loadD", "loadT", "sleep"}

\* Image tasks between the acquisition of an image permit and the end of the GET.
InFlight == {x \in Items \X Ords : task[x[1]][x[2]] = "fetching"}

\* No other submitted item has the temp directory of item i.
OwnsTempDir(i) == \A j \in Items \ {i} : kind[j] = "none" \/ TempDir(j) # TempDir(i)

RECURSIVE DecodeDigits(_)
DecodeDigits(ds) ==
    IF ds = <<>> THEN 0 ELSE 10 * DecodeDigits(SubSeq(ds, 1, Len(ds) - 1)) + ds[Len(ds)]

\* C1: every accepted item gets exactly one "end" event on every exit path of
\* its processor: never two, and one once the processor is over.
C1_ExactlyOneEnd ==
    \A i \in Items : endCnt[i] <= 1 /\ (pc[i] = "done" => endCnt[i] = 1)

\* C2: from a state in which the shared counters are equal and not zero, and
\* while a processor stands between its equality test and the end of its reset,
\* no step increments either counter.
C2_ResetBeforeIncrement ==
    [][((downloaded_image_count = total_image_count /\ total_image_count > 0)
            \/ \E i \in Items : pc[i] \in {"rstD", "rstT"})
        => (downloaded_image_count' <= downloaded_image_count
            /\ total_image_count' <= total_image_count)]_vars

\* C3: with the item pool never resized, the items in the Downloading phase
\* (inter-item delay included) never outnumber the configured limit.
C3_ItemConcurrencyBound ==
    Cardinality({i \in Items : Downloading(i)}) <= epSize[1]

\* C3 witness: the limit is reached, one episode sits in its delay with the
\* slot, another item waits for a slot.
C3_Witness ==
    /\ Cardinality({i \in Items : Downloading(i)}) = epSize[1]
    /\ \E i \in Items : pc[i] = "sleep" /\ holdsEp[i]
    /\ \E j \in Items : pc[j] = "acquire"

\* C4: with the image pool never resized, the image tasks of all items that
\* are between acquiring a slot and the end of their GET never outnumber the
\* configured limit.
C4_ImageConcurrencyBound ==
    Cardinality(InFlight) <= imgSize[1]

\* C4 witness: the limit is reached by a fetch of one item while a task of
\* another active item waits for a slot.
C4_Witness ==
    /\ Cardinality(InFlight) = imgSize[1]
    /\ \E i, j \in Items : /\ i # j
                           /\ \E k \in Ords : task[i][k] = "fetching"
                           /\ \E l \in Ords : task[j][l] = "wait"

\* C5: an item that had image tasks in flight or waiting when the image pool
\* was resized loses none of them and gets its "end" event.
C5_ResizeKeepsItemsAlive ==
    \A i \in resizedInFlight :
        /\ \A k \in Ords : task[i][k] # "aborted"
        /\ pc[i] = "done" => endCnt[i] = 1

\* C6: every acquisition that begins after a resize (the processor arrives at
\* ep_sem.acquire(), an image task is spawned towards img_sem.acquire()) is
\* served by the newest pool, also for items dispatched before the resize.
C6_AcquireFromFreshPool ==
    [][\A i \in Items :
          /\ (pc[i] # "acquire" /\ pc'[i] = "acquire") => selfEp[i] = Len(epAvail)
          /\ \A k \in Ords : (task[i][k] # "wait" /\ task'[i][k] = "wait")
                                => selfImg[i] = Len(imgAvail)]_vars

\* C7: the receive loop is never held up by the item slots: a queued item can
\* always be received; every item past the queue has exactly one processor
\* task, and an item waiting for a slot waits in that task, its "pending"
\* event emitted.
C7_DispatcherNeverWaitsForSlot ==
    /\ queue # <<>> => ENABLED receiver_loop
    /\ \A i \in Items :
        /\ spawnCnt[i] = (IF pc[i] \in {"idle", "queued"} THEN 0 ELSE 1)
        /\ (pc[i] = "queued") <=> (\E n \in 1..Len(queue) : queue[n] = i)
        /\ pc[i] = "acquire" => pendingCnt[i] = 1

\* C7 witness: every item slot is held, and an item submitted later has been
\* received and waits for a slot in its own task.
C7_Witness ==
    \E i, j \in Items :
        /\ Downloading(i)
        /\ pc[j] = "acquire" /\ pendingCnt[j] = 1 /\ spawnCnt[j] = 1
        /\ epAvail[selfEp[j]] = 0
        /\ queue = <<>>

\* C8: the k-th url of an item is saved under a ".jpg" name whose stem is the
\* three-digit decimal of k; two images of one item never share a name; the
\* temp directory an item has to itself holds under these names exactly the
\* images saved so far.
C8_OrdinalFileNames ==
    /\ \A n \in {9, 10, 99, 100, 999} :
          Len(Format03(n)) = 3 /\ DecodeDigits(Format03(n)) = n
    /\ \A i \in Items :
        LET saved == {k \in Ords : savedAs[i][k] # <<>>} IN
        /\ \A k \in saved : /\ savedAs[i][k][1] = "jpg"
                            /\ Len(savedAs[i][k][2]) = 3
                            /\ DecodeDigits(savedAs[i][k][2]) = k
        /\ \A k, l \in saved : k # l => savedAs[i][k] # savedAs[i][l]
        /\ (OwnsTempDir(i) /\ pc[i] # "done" /\ kind[i] # "none"
                /\ fs[TempDir(i)].exists)
            => fs[TempDir(i)].files = {<<savedAs[i][k], <<i, k>>>> : k \in saved}

\* C8 witness: the second image of an item is on disk as 002.jpg while the
\* first one has failed or is still being fetched.
C8_Witness ==
    \E i \in Items :
        /\ savedAs[i][2] = <<"jpg", <<0, 0, 2>>>>
        /\ task[i][1] \in {"fetching", "err"}
        /\ <<savedAs[i][2], <<i, 2>>>> \in fs[TempDir(i)].files

\* C9: an item whose images were started and of which fewer than its total
\* were saved ends with one "end" event stating the total and the saved count;
\* nothing is archived and the temp directory stays.
C9_PartialFailureReported ==
    \A i \in Items :
        (pc[i] = "done" /\ startCnt[i] = 1 /\ current[i] < total[i]) =>
            /\ endCnt[i] = 1
            /\ endMsg[i] = <<"partial", total[i], current[i]>>
            /\ archiveCalls[i] = 0
            /\ OwnsTempDir(i) =>
                 /\ fs[TempDir(i)].exists
                 /\ ~fs[DownloadDir(i)].exists
                 /\ \A fmt \in {"Zip", "Cbz"} : ~fs[ZipPath(i, fmt)].exists

\* C10: an item whose url resolution failed ends with one "end" event carrying
\* the error, with no temp directory, no addition to total_image_count and no
\* item slot; an item whose temp directory could not be created ends with one
\* "end" event carrying the error.
C10_EarlyFailureReported ==
    \A i \in Items :
        /\ exitPath[i] \in {"index", "token"} =>
              /\ endCnt[i] = 1 /\ endMsg[i] = <<"error">>
              /\ startCnt[i] = 0 /\ total[i] = 0
              /\ OwnsTempDir(i) => ~fs[TempDir(i)].exists
        /\ exitPath[i] = "mkdir" =>
              endCnt[i] = 1 /\ endMsg[i] = <<"error">>

\* Image tasks that ran to their end.
Ended(i) == {k \in Ords : task[i][k] \in {"ok", "err", "panic", "joined"}}

\* C11: every image task that ran to its end emitted exactly one image_success
\* or image_error, only the saved images count as completed, and no task of an
\* item is stopped because a sibling failed.
C11_OneEventPerImageTask ==
    \A i \in Items :
        /\ successCnt[i] + errorCnt[i] = Cardinality(Ended(i))
        /\ current[i] = successCnt[i]
        /\ \A k \in Ords : task[i][k] # "aborted"

\* C12: decrypt_img_data answers every malformed payload (empty, shorter than
\* the header, wrong flag, token too short, key of the wrong length, invalid
\* padding byte) with an Err, which download_image turns into one image_error.
C12_MalformedPayloadIsImageError ==
    (dec.done /\ dec.case \in MalformedCases) => dec.result.kind = "Err"

\* C15: decrypt_img_data returns the plaintext of every payload built under the
\* scheme of the service, for contents shorter than HEAD_LEN (all of it
\* enciphered) and for longer ones (the leading HEAD_LEN bytes enciphered, the
\* rest copied).
C15_DecryptRoundTrip ==
    (dec.done /\ dec.mode = "img" /\ dec.case = "scheme") => dec.result = Ok(dec.plain)

\* C15 witness: a plaintext with a tail behind the enciphered head came back.
C15_Witness ==
    /\ dec.done /\ dec.mode = "img" /\ dec.case = "scheme"
    /\ Len(dec.plain) = HEAD_LEN + 1
    /\ ReadU32(SubSeq(dec.data, 2, 5)) > HEAD_LEN
    /\ dec.result = Ok(dec.plain)

\* C16: aes_cbc_decrypt, given a plaintext padded with N bytes of value N
\* (N in 1..16) to a multiple of 16 and enciphered, returns the plaintext: the
\* N padding bytes are gone and nothing else.
C16_Pkcs7Unpadding ==
    (dec.done /\ dec.mode = "aes") =>
        LET N == Len(dec.data) - Len(dec.plain) IN
        /\ N \in 1..BLOCK_SIZE
        /\ dec.result.kind = "Ok"
        /\ Len(dec.result.data) = Len(dec.data) - N
        /\ dec.result.data = dec.plain

\* C16 witness: a plaintext of one whole block that itself ends with byte 16
\* came back without the 16 padding bytes.
C16_Witness ==
    /\ dec.done /\ dec.mode = "aes"
    /\ Len(dec.plain) = BLOCK_SIZE /\ dec.plain[BLOCK_SIZE] = BLOCK_SIZE
    /\ Len(dec.data) = 2 * BLOCK_SIZE
    /\ dec.result = Ok(dec.plain)

\* The image files item i was to download, as download_image writes them.
ImageFiles(i) == {<<savedAs[i][k], <<i, k>>>> : k \in 1..total[i]}

\* C13: an episode archived with the zip format leaves an archive holding one
\* entry per image file of its temp directory, same name and same bytes, and
\* nothing else (no metadata file); the temp directory is gone.
C13_ZipHoldsExactlyImages ==
    \A i \in Items :
        (archivedAs[i] = "Zip" /\ endMsg[i] = <<"ok">> /\ OwnsTempDir(i)) =>
            /\ fs[ZipPath(i, "Zip")].files = ImageFiles(i)
            /\ ~fs[TempDir(i)].exists

\* C14: a finalization with the plain-directory format that succeeds leaves at
\* the final path exactly what the temp directory held, whatever was at the
\* final path before, and no temp directory.
C14_PlainDirectoryOverwrites ==
    [][\A i \in Items :
          (archivedAs[i] = "none" /\ archivedAs'[i] = "Image" /\ endMsg'[i] = <<"ok">>) =>
              /\ fs'[DownloadDir(i)] = fs[TempDir(i)]
              /\ fs'[TempDir(i)] = Absent]_vars

\* C14 witness: two episodes of the same titles were both finalized as plain
\* directories; the final directory holds the images of the later one and
\* nothing of the earlier one.
C14_Witness ==
    \E i, j \in Items :
        /\ i # j /\ DownloadDir(i) = DownloadDir(j)
        /\ archivedAs[i] = "Image" /\ endMsg[i] = <<"ok">> /\ total[i] > 0
        /\ archivedAs[j] = "Image" /\ endMsg[j] = <<"ok">> /\ total[j] > 0
        /\ fs[DownloadDir(i)] = Dir(ImageFiles(i))
        /\ ~fs[TempDir(i)].exists

\* C17: the events of an item come in the order pending, start, image events,
\* end.  "pending" is emitted once, by the processor just spawned, before
\* anything else; "start" once, after "pending", by a processor that holds an
\* item permit, before any image event; an image event only between "start"
\* and "end"; "end" after "pending", with no image task of the item still to
\* finish.
C17_EventOrder ==
    [][\A i \in Items :
          /\ pendingCnt'[i] # pendingCnt[i] =>
                /\ pc[i] = "spawned" /\ pendingCnt[i] = 0
                /\ startCnt[i] = 0 /\ successCnt[i] + errorCnt[i] = 0 /\ endCnt[i] = 0
          /\ startCnt'[i] # startCnt[i] =>
                /\ pendingCnt[i] = 1 /\ startCnt[i] = 0 /\ holdsEp'[i]
                /\ successCnt[i] + errorCnt[i] = 0 /\ endCnt[i] = 0
          /\ (successCnt'[i] # successCnt[i] \/ errorCnt'[i] # errorCnt[i]) =>
                startCnt[i] = 1 /\ endCnt[i] = 0
          /\ endCnt'[i] # endCnt[i] =>
                /\ pendingCnt[i] = 1
                /\ \A k \in Ords : ~Running(task[i][k])]_vars

\* C17 witness: an item went through pending, start, a saved image, a failed
\* image and end.
C17_Witness ==
    \E i \in Items :
        /\ pendingCnt[i] = 1 /\ startCnt[i] = 1
        /\ successCnt[i] = 1 /\ errorCnt[i] = 1
        /\ endCnt[i] = 1 /\ pc[i] = "done"

\* C18: an episode holds its item permit all through the delay after its last
\* image task, so with one slot an item waiting for it finds none; an
\* album-plus item has no delay and holds no permit once its tasks are joined.
C18_SlotHeldThroughDelay ==
    \A i \in Items :
        /\ pc[i] = "sleep" => (kind[i] = "Episode" /\ holdsEp[i])
        /\ (kind[i] = "AlbumPlus" /\ pc[i] \in {"chkD", "chkT", "rstD", "rstT", "final", "done"})
              => ~holdsEp[i]
        /\ \A j \in Items :
              (pc[i] = "sleep" /\ pc[j] = "acquire" /\ epSize[1] = 1) => epAvail[selfEp[j]] = 0

\* C18 witness: with one slot, an episode whose images are all joined sits in
\* its delay while an album-plus item waits for the slot.
C18_Witness ==
    \E i, j \in Items :
        /\ kind[i] = "Episode" /\ pc[i] = "sleep" /\ holdsEp[i]
        /\ total[i] = MaxImgs /\ \A k \in Ords : task[i][k] = "joined"
        /\ kind[j] = "AlbumPlus" /\ pc[j] = "acquire"
        /\ epSize[1] = 1 /\ epAvail[1] = 0

\* C19: an album-plus item whose images were all saved is finalized like an
\* episode: its processor ends with one "end" event, which carries the failure
\* when the finalization failed, and a success leaves no temp directory.
C19_ExtraItemUsesArchiver ==
    \A i \in Items :
        (kind[i] = "AlbumPlus" /\ pc[i] = "done" /\ startCnt[i] = 1 /\ current[i] = total[i]) =>
            /\ endCnt[i] = 1
            /\ archiveCalls[i] = 1
            /\ endMsg[i] = <<"ok">> => ~fs[TempDir(i)].exists \/ ~OwnsTempDir(i)

\* A processor that has its temp directory and is not over.
Working(i) ==
    pc[i] \in {"addtotal", "acquire", "joining", "loadD", "loadT", "sleep",
               "chkD", "chkT", "rstD", "rstT", "final"}

\* C20: no two processors at work have the same temp directory.
C20_TempWorkspaceExclusive ==
    \A i, j \in Items :
        (i # j /\ Working(i) /\ Working(j)) => TempDir(i) # TempDir(j)

\* C21: decrypt_img_data decides in this order: bytes that are an image come
\* back unchanged; otherwise a flag byte other than 1 is an Err; otherwise a
\* declared length whose end, length + 5, lies past the buffer gives the bytes
\* back unchanged; only otherwise the region [5, length + 5) is deciphered with
\* the bytes behind it as key.  Bytes from a url without cpx are kept as they
\* are, whatever they hold.  (Non-image payloads without a flag byte or
\* without the 4 length bytes get no decision here.)
C21_DecisionOrder ==
    /\ (dec.done /\ dec.mode = "img") =>
          LET d == dec.data
              n == Len(d)
              length == ReadU32(SubSeq(d, 2, 5))
          IN  IF GuessFormatIsOk(d) THEN dec.result = Ok(d)
              ELSE IF n >= 1 /\ d[1] # 1 THEN dec.result = Err
              ELSE IF n >= 5 /\ length + 5 > n THEN dec.result = Ok(d)
              ELSE IF n >= 5
                   THEN /\ dec.result # Ok(d)
                        /\ dec.case = "scheme" => dec.result = Ok(dec.plain)
                        /\ (dec.case # "token" /\ length < HEAD_LEN) =>
                              dec.result = aes_cbc_decrypt(SubSeq(d, 6, length + 5),
                                                           SubSeq(d, length + 6, n), dec.iv)
                   ELSE TRUE
    /\ (dec.done /\ dec.mode = "nocpx") => dec.result = Ok(dec.data)

\* C21 witness: a payload with flag 1 whose declared length ends one byte past
\* the buffer came back unchanged.
C21_Witness ==
    /\ dec.done /\ dec.mode = "img" /\ dec.case = "oversize"
    /\ ~GuessFormatIsOk(dec.data)
    /\ dec.data[1] = 1
    /\ ReadU32(SubSeq(dec.data, 2, 5)) + 5 = Len(dec.data) + 1
    /\ dec.result = Ok(dec.data)

\* The images whose file is on disk, and those of them whose task stands
\* between its fs::write and its byte_per_sec.fetch_add.
SavedImages == {x \in Items \X Ords : savedAs[x[1]][x[2]] # <<>>}
BetweenWriteAndAdd == {x \in Items \X Ords : task[x[1]][x[2]] = "written"}

RECURSIVE SumLen(_)
SumLen(S) ==
    IF S = {} THEN 0
    ELSE LET x == CHOOSE y \in S : TRUE IN ImageLen(x[1], x[2]) + SumLen(S \ {x})

\* C22, as stated: at every moment the bytes the ticks took plus the counter
\* equal the bytes of all images saved so far.
C22_EqualAtEveryMoment ==
    drainedBytes + byte_per_sec = SumLen(SavedImages)

\* C22, amended: the bytes the ticks took plus the counter equal the bytes of
\* the saved images whose task has passed its fetch_add; they equal the bytes
\* of all saved images whenever no task stands between its write and its
\* fetch_add.  A tick takes the whole counter and leaves 0, so nothing is lost
\* or taken twice, and an image that failed adds nothing.
C22_ByteAccounting ==
    /\ drainedBytes + byte_per_sec = SumLen(SavedImages \ BetweenWriteAndAdd)
    /\ BetweenWriteAndAdd = {} => drainedBytes + byte_per_sec = SumLen(SavedImages)

\* C22 witness: a tick has taken bytes, later bytes stand in the counter, one
\* image failed and one image task stands between its write and its fetch_add.
C22_Witness ==
    /\ drainedBytes > 0
    /\ byte_per_sec > 0
    /\ BetweenWriteAndAdd # {}
    /\ \E i \in Items : errorCnt[i] > 0

\* The number of images of item i saved by now.
SavedCount(i) == Cardinality({k \in Ords : savedAs[i][k] # <<>>})

\* The counts image tasks of item i hold between fetch_add and the event.
HeldCounts(i) == {localCurrent[i][k] : k \in {j \in Ords : task[i][j] = "emitting"}}

\* C23: the counts carried by the image_success events of an item are pairwise
\* distinct and, with the counts of the tasks about to emit, are exactly
\* 1..current; once every image task of the item is through, they are exactly
\* 1..k for the k images saved.  A partial "end" event names k as downloaded.
C23_CompletedCounts ==
    \A i \in Items :
        /\ Cardinality(successCurrent[i]) = successCnt[i]
        /\ successCurrent[i] \cap HeldCounts(i) = {}
        /\ Cardinality(HeldCounts(i)) = Cardinality({k \in Ords : task[i][k] = "emitting"})
        /\ successCurrent[i] \cup HeldCounts(i) = 1..current[i]
        /\ (\A k \in Ords : task[i][k] \notin {"wait", "fetching", "written", "counted", "emitting"})
              => successCurrent[i] = 1..SavedCount(i)
        /\ endMsg[i][1] = "partial" => endMsg[i][3] = SavedCount(i)

\* C23 witness: in one item the second image has emitted its event, carrying 1,
\* while the first holds 2 and has yet to emit; another item has ended as
\* partial with its second image saved alone, its one event carrying 1.
C23_Witness ==
    \E i, j \in Items :
        /\ i # j
        /\ total[i] = 2
        /\ task[i][1] = "emitting" /\ localCurrent[i][1] = 2
        /\ task[i][2] = "ok" /\ successCurrent[i] = {1}
        /\ endMsg[j] = PartialMsg(2, 1)
        /\ successCurrent[j] = {1}
        /\ savedAs[j][2] # <<>>

\* C24: in every reachable state the shared downloaded_image_count is at most
\* total_image_count, and every overall_progress event goes out with a total
\* above 0 and a downloaded count that is at most the total.
C24_DownloadedWithinTotal ==
    /\ downloaded_image_count <= total_image_count
    /\ \A i \in Items :
          pc[i] = "loadT" => (total_image_count > 0 /\ ld[i] <= total_image_count)

\* The holders of the permits of pool p: processors between acquire() and the
\* drop of `permit`, image tasks between acquire() and drop(permit).
EpHolders(p) == {i \in Items : holdsEp[i] /\ selfEp[i] = p}
ImgHolders(p) == {x \in Items \X Ords : task[x[1]][x[2]] = "fetching" /\ selfImg[x[1]] = p}

\* Every submitted item is over: nothing in the channel, no processor running.
AllEnded ==
    /\ queue = <<>>
    /\ \A i \in Items : pc[i] \in {"idle", "done"}
    /\ \E i \in Items : pc[i] = "done"

\* C25: permits are conserved: in each pool the free permits and the permits
\* held add up to the size, on every path.  A task that holds an image slot
\* belongs to a processor that holds its item slot and waits for none; whoever
\* waits for a slot of an exhausted pool waits for a holder that needs no
\* further slot, so some step of the engine is always possible while an item
\* is in progress.  Once every submitted item is over, each pool has all its
\* permits free.
C25_PermitsConserved ==
    /\ \A p \in 1..Len(epAvail) :
          epAvail[p] >= 0 /\ epAvail[p] + Cardinality(EpHolders(p)) = epSize[p]
    /\ \A p \in 1..Len(imgAvail) :
          imgAvail[p] >= 0 /\ imgAvail[p] + Cardinality(ImgHolders(p)) = imgSize[p]
    /\ \A i \in Items, k \in Ords :
          task[i][k] = "fetching" => (holdsEp[i] /\ pc[i] \in {"joining", "loadD", "loadT"})
    /\ \A i \in Items :
          (pc[i] = "acquire" /\ epAvail[selfEp[i]] = 0) =>
              \E j \in EpHolders(selfEp[i]) : pc[j] \in {"joining", "loadD", "loadT", "sleep"}
    /\ \A i \in Items, k \in Ords :
          (task[i][k] = "wait" /\ imgAvail[selfImg[i]] = 0) => ImgHolders(selfImg[i]) # {}
    /\ (\E i \in Items : pc[i] \notin {"idle", "done"}) =>
          ENABLED (Engine(Formats) \/ \E i \in Items, ok \in BOOLEAN : AlbumPlusRename(i, ok))
    /\ AllEnded =>
          /\ \A p \in 1..Len(epAvail) : epAvail[p] = epSize[p]
          /\ \A p \in 1..Len(imgAvail) : imgAvail[p] = imgSize[p]

\* C25 witness: every item is over and both pools are full again, after one
\* processor left by a panicked image task while a sibling task held an image
\* slot, and another left with an "end" event.
C25_Witness ==
    /\ AllEnded
    /\ \E i, j \in Items :
          /\ exitPath[i] = "join"
          /\ \E k \in Ords : task[i][k] = "aborted"
          /\ endCnt[j] = 1 /\ startCnt[j] = 1
    /\ epAvail = epSize /\ imgAvail = imgSize

=============================================================================
